---- MODULE Spec2Model ----
(***************************************************************************)
(* Model of merge_gpx_kestrel (src/merge_gpx_kestrel.py, lines 88-155):    *)
(* the points of a gpx track are loaded, the kestrel csv file is copied    *)
(* line by line to the located file, and every data row gets latitude,     *)
(* longitude and elevation from the track, verbatim or interpolated.       *)
(*                                                                         *)
(* Modelling choices.                                                      *)
(*  - A file is a sequence of lines, a line a sequence of csv cells.       *)
(*  - Times are whole seconds. A gpx time and an instant are seconds since *)
(*    2000-01-01 00:00:00 UTC; a kestrel 'Time' cell is the civil second   *)
(*    count since 2000-01-01 00:00:00 on the wall clock (a winter day, so  *)
(*    CET is UTC+1 throughout the model's time range).                     *)
(*  - Floats are exact rationals <<numerator, denominator>> in lowest      *)
(*    terms; a blank csv cell is <<>>.                                     *)
(*  - A Python local that may be unbound is <<>> (unbound) or <<value>>.   *)
(*  - The kestrel files of the model are well formed: 9 preface lines, a   *)
(*    header naming 'Time', a units line, and data rows holding one cell   *)
(*    per named column.                                                    *)
(***************************************************************************)
EXTENDS Integers, Sequences, FiniteSets

\* ---------------------------------------------------------------- bounds
MaxPoints == 2
MaxRows == 2

\* ------------------------------------------------------ program constants
\* range(9): the preface rows copied before the header
PrefaceRows == 9
\* pytz.timezone('CET') in winter: civil time is UTC + 3600 s
CETOffset == 3600
\* timedelta.seconds is the seconds component of days/seconds/microseconds
SecondsPerDay == 86400

VARIABLES
    gpx,           \* the gpx file: its points, naive times
    kestrel_file,  \* the kestrel csv file: its lines
    pc,            \* position in merge_gpx_kestrel
    points,        \* the loaded points
    pos,           \* lines of kestrel_file read so far
    located,       \* the located file: the lines written so far
    fieldnames,    \* kestrel_reader.fieldnames
    headers,       \* the located writer's fieldnames
    i,             \* local i of the scan, <<>> while unbound
    after_point,   \* local after_point, <<>> while unbound
    before_point,  \* local before_point, <<>> while unbound
    seconds,       \* local seconds, <<>> while unbound
    elapsed,       \* local elapsed, <<>> while unbound
    branch,        \* per row read, the branch the iteration took
    error          \* the exception that ended the merge, or "none"

vars == <<gpx, kestrel_file, pc, points, pos, located, fieldnames, headers,
          i, after_point, before_point, seconds, elapsed, branch, error>>

\* ------------------------------------------------------------ arithmetic
Abs(n) == IF n < 0 THEN -n ELSE n

Min(S) == CHOOSE x \in S : \A y \in S : x <= y

RECURSIVE GCD(_, _)
GCD(a, b) == IF b = 0 THEN a ELSE GCD(b, a % b)

\* the rational n/d (d > 0) in lowest terms
Rat(n, d) == LET g == GCD(Abs(n), d) IN <<n \div g, d \div g>>

\* ---------------------------------------------------------------- inputs
TrackTimes == {0, 10, 86410}
Positions == {<<0, 0, 0>>, <<10, 20, 30>>}
GpxPoints == {[time |-> t, latitude |-> p[1], longitude |-> p[2], elevation |-> p[3]] :
                 t \in TrackTimes, p \in Positions}

\* gpx.get_points_data(): the track's points in file order, oldest first
Tracks == {s \in UNION {[1..n -> GpxPoints] : n \in 0..MaxPoints} :
              \A k \in 1..(Len(s) - 1) : s[k].time <= s[k + 1].time}

CivilTimes == {3595, 3600, 3605, 3610, 3620}
Temps == {"21.5", "22.0"}
\* the data rows of a log as (civil time, temperature) pairs
DataRows == {<<t, v>> : t \in CivilTimes, v \in Temps}
Logs == UNION {[1..n -> DataRows] : n \in 0..MaxRows}

Preface(tag) == [k \in 1..PrefaceRows |-> <<tag, k>>]
\* (preface tag, header line, units line) of the kestrel files of the model
Shapes == {<<"Kestrel 5500", <<"Time", "Temp">>, <<"yyyy-MM-dd hh:mm:ss", "C">>>>,
           <<"Kestrel 4500", <<"Time", "Temp", "", "">>, <<"yyyy-MM-dd hh:mm:ss", "C", "", "">>>>,
           <<"Kestrel 3000", <<"Temp", "Time", "">>, <<"F", "yyyy-MM-dd hh:mm:ss", "">>>>}
\* a data row as a csv line: one cell per named column, in header order
RowLineOf(header, r) == IF header[1] = "Time" THEN <<r[1], r[2]>> ELSE <<r[2], r[1]>>
KestrelFiles == {Preface(s[1]) \o <<s[2]>> \o <<s[3]>> \o
                    [k \in 1..Len(rows) |-> RowLineOf(s[2], rows[k])] :
                    s \in Shapes, rows \in Logs}

\* ------------------------------------------------------------ conversions
\* pytz.utc.localize(point.time): the zone is attached, the clock value kept
UtcLocalize(naive) == naive

\* strptime + pytz.timezone('CET').localize: civil CET time to an instant
CetLocalize(civil) == civil - CETOffset

\* (a - b).seconds of two aware datetimes: the seconds component of the
\* normalised timedelta, 0 <= seconds < 86400, the days dropped
TimedeltaSeconds(a, b) == (a - b) % SecondsPerDay

\* ---------------------------------------------------------------- helpers
\* a Python list read at a 0-based index; a negative index counts from the end
PointAt(pts, idx) == IF idx >= 0 THEN pts[idx + 1] ELSE pts[Len(pts) + idx + 1]

\* mutant of TrimHeader: 'if' for 'while', at most one empty name is popped
TrimHeaderOnce(names) ==
    IF names[Len(names)] = "" THEN SubSeq(names, 1, Len(names) - 1) ELSE names

\* while kestrel_reader.fieldnames[-1] == '': kestrel_reader.fieldnames.pop()
RECURSIVE TrimHeader(_)
TrimHeader(names) ==
    IF names[Len(names)] = "" THEN TrimHeader(SubSeq(names, 1, Len(names) - 1))
    ELSE names

LocationHeaders == <<"latitude", "longitude", "elevation">>

\* csv.DictReader: the row as a dict from field name to cell
DictRow(names, cells) == [f \in {names[k] : k \in 1..Len(names)} |->
                             cells[Min({k \in 1..Len(names) : names[k] = f})]]

\* mutant of RowUpdate: the parsed instant is written back to 'Time' as well
RowUpdateTime(row, loc) ==
    [f \in DOMAIN row \cup {"latitude", "longitude", "elevation"} |->
        IF f = "latitude" THEN loc[1]
        ELSE IF f = "longitude" THEN loc[2]
        ELSE IF f = "elevation" THEN loc[3]
        ELSE IF f = "Time" THEN CetLocalize(row[f])
        ELSE row[f]]

\* row.update({...}) for the three location fields
RowUpdate(row, loc) ==
    [f \in DOMAIN row \cup {"latitude", "longitude", "elevation"} |->
        IF f = "latitude" THEN loc[1]
        ELSE IF f = "longitude" THEN loc[2]
        ELSE IF f = "elevation" THEN loc[3]
        ELSE row[f]]

\* csv.DictWriter.writerow: one cell per header, blank for a missing key
WriterRow(hdrs, row) ==
    [k \in 1..Len(hdrs) |-> IF hdrs[k] \in DOMAIN row THEN row[hdrs[k]] ELSE <<>>]

\* for i, point in enumerate(points): if point.time > kestrel_time: ... break
\* An empty list binds nothing; a scan that never breaks leaves i at the last
\* index and after_point as it was.
Scan(pts, kestrel_time, i0, after0) ==
    LET hits == {k \in 1..Len(pts) : pts[k].time > kestrel_time}
    IN  IF Len(pts) = 0 THEN [i |-> i0, after_point |-> after0]
        ELSE IF hits = {} THEN [i |-> <<Len(pts) - 1>>, after_point |-> after0]
        ELSE [i |-> <<Min(hits) - 1>>, after_point |-> <<pts[Min(hits)]>>]

\* mutant of HasBefore: the test of i is dropped
HasBeforeAlways(idx) == TRUE

\* if i != 0
HasBefore(idx) == idx # 0

\* before.value + elapsed * ((after.value - before.value) / seconds)
Interpolate(before_value, after_value, secs, elap) ==
    Rat(before_value * secs + elap * (after_value - before_value), secs)

\* lines 123-152 for one row: the locals after the iteration, the location
\* written to the row (<<>> when the row is not updated), the branch taken and
\* the exception raised, if any
LocateRow(pts, kestrel_time, i0, after0, before0, secs0, elap0) ==
    LET sc == Scan(pts, kestrel_time, i0, after0)
        base == [i |-> sc.i, after_point |-> sc.after_point,
                 before_point |-> before0, seconds |-> secs0,
                 elapsed |-> elap0, loc |-> <<>>, branch |-> "none", error |-> "none"]
    IN  IF sc.i = <<>> THEN [base EXCEPT !.error = "UnboundLocalError", !.branch = "raise"]
        ELSE IF ~HasBefore(sc.i[1]) THEN [base EXCEPT !.branch = "no_before"]
        ELSE LET before == PointAt(pts, sc.i[1] - 1)
                 found == [base EXCEPT !.before_point = <<before>>]
             IN  IF before.time = kestrel_time
                 THEN [found EXCEPT !.branch = "exact",
                                    !.loc = <<Rat(before.latitude, 1),
                                              Rat(before.longitude, 1),
                                              Rat(before.elevation, 1)>>]
                 ELSE IF sc.after_point = <<>>
                 THEN [found EXCEPT !.error = "UnboundLocalError", !.branch = "raise"]
                 ELSE LET after == sc.after_point[1]
                          secs == TimedeltaSeconds(after.time, before.time)
                          elap == TimedeltaSeconds(kestrel_time, before.time)
                      IN  IF secs = 0
                          THEN [found EXCEPT !.seconds = <<secs>>, !.branch = "zero"]
                          ELSE [found EXCEPT
                                  !.seconds = <<secs>>, !.elapsed = <<elap>>,
                                  !.branch = "interpolated",
                                  !.loc = <<Interpolate(before.latitude, after.latitude, secs, elap),
                                            Interpolate(before.longitude, after.longitude, secs, elap),
                                            Interpolate(before.elevation, after.elevation, secs, elap)>>]

\* ------------------------------------------------------------------ state
Init ==
    /\ gpx \in Tracks
    /\ kestrel_file \in KestrelFiles
    /\ pc = "load"
    /\ points = <<>>
    /\ pos = 0
    /\ located = <<>>
    /\ fieldnames = <<>>
    /\ headers = <<>>
    /\ i = <<>>
    /\ after_point = <<>>
    /\ before_point = <<>>
    /\ seconds = <<>>
    /\ elapsed = <<>>
    /\ branch = <<>>
    /\ error = "none"

\* lines 90-96: load all points of the gpx file, times localized to UTC
LoadPoints ==
    /\ pc = "load"
    /\ points' = [k \in 1..Len(gpx) |-> [gpx[k] EXCEPT !.time = UtcLocalize(gpx[k].time)]]
    /\ pc' = "preface"
    /\ UNCHANGED <<gpx, kestrel_file, pos, located, fieldnames, headers,
                   i, after_point, before_point, seconds, elapsed, branch, error>>

\* lines 101-102: write the preface rows unchanged
WritePreface ==
    /\ pc = "preface"
    /\ located' = located \o SubSeq(kestrel_file, pos + 1, pos + PrefaceRows)
    /\ pos' = pos + PrefaceRows
    /\ pc' = "header"
    /\ UNCHANGED <<gpx, kestrel_file, points, fieldnames, headers,
                   i, after_point, before_point, seconds, elapsed, branch, error>>

\* lines 105-112: read and clean the headers, add the location headers, write
WriteHeader ==
    /\ pc = "header"
    /\ fieldnames' = TrimHeader(kestrel_file[pos + 1])
    /\ headers' = fieldnames' \o LocationHeaders
    /\ located' = Append(located, headers')
    /\ pos' = pos + 1
    /\ pc' = "units"
    /\ UNCHANGED <<gpx, kestrel_file, points,
                   i, after_point, before_point, seconds, elapsed, branch, error>>

\* line 115: write the units row unchanged
WriteUnits ==
    /\ pc = "units"
    /\ located' = Append(located, kestrel_file[pos + 1])
    /\ pos' = pos + 1
    /\ pc' = "rows"
    /\ UNCHANGED <<gpx, kestrel_file, points, fieldnames, headers,
                   i, after_point, before_point, seconds, elapsed, branch, error>>

\* lines 118-155: one iteration of the row loop
MergeRow ==
    /\ pc = "rows"
    /\ pos < Len(kestrel_file)
    /\ LET row == DictRow(fieldnames, kestrel_file[pos + 1])
           kestrel_time == CetLocalize(row["Time"])
           r == LocateRow(points, kestrel_time, i, after_point, before_point,
                          seconds, elapsed)
       IN  /\ pos' = pos + 1
           /\ i' = r.i
           /\ after_point' = r.after_point
           /\ before_point' = r.before_point
           /\ seconds' = r.seconds
           /\ elapsed' = r.elapsed
           /\ branch' = Append(branch, r.branch)
           /\ error' = r.error
           /\ IF r.error # "none"
              THEN /\ pc' = "error"
                   /\ located' = located
              ELSE /\ pc' = "rows"
                   /\ located' = Append(located,
                         WriterRow(headers, IF r.loc = <<>> THEN row ELSE RowUpdate(row, r.loc)))
    /\ UNCHANGED <<gpx, kestrel_file, points, fieldnames, headers>>

\* the row loop ends with the file and both files are closed
Finish ==
    /\ pc = "rows"
    /\ pos = Len(kestrel_file)
    /\ pc' = "done"
    /\ UNCHANGED <<gpx, kestrel_file, points, pos, located, fieldnames, headers,
                   i, after_point, before_point, seconds, elapsed, branch, error>>

Next == LoadPoints \/ WritePreface \/ WriteHeader \/ WriteUnits \/ MergeRow \/ Finish

Spec == Init /\ [][Next]_vars

\* ------------------------------------------------------------ vocabulary
\* of the properties: rows are numbered 1.. in file order

\* the line of kestrel_file and of located that holds data row k
RowLine(k) == PrefaceRows + 2 + k

\* data rows of the kestrel file, rows read so far, rows written so far
NRows == Len(kestrel_file) - (PrefaceRows + 2)
RowsRead == IF pos > PrefaceRows + 2 THEN pos - (PrefaceRows + 2) ELSE 0
RowsWritten == IF Len(located) > PrefaceRows + 2 THEN Len(located) - (PrefaceRows + 2) ELSE 0

\* the column of the input header named 'Time'
TimeColumn == Min({j \in 1..Len(kestrel_file[PrefaceRows + 1]) :
                      kestrel_file[PrefaceRows + 1][j] = "Time"})

\* the absolute instant of input row k
RowInstant(k) == kestrel_file[RowLine(k)][TimeColumn] - CETOffset

\* the last three cells of output row k
OutLocation(k) == LET line == located[RowLine(k)]
                      n == Len(line)
                  IN  <<line[n - 2], line[n - 1], line[n]>>

Unset == <<<<>>, <<>>, <<>>>>

Verbatim(p) == <<Rat(p.latitude, 1), Rat(p.longitude, 1), Rat(p.elevation, 1)>>

\* before + t * (after - before), t = (instant - before.time) / (after.time -
\* before.time), on the full differences
Blend(b, a, instant) ==
    LET interval == a.time - b.time
        since == instant - b.time
    IN  <<Rat(b.latitude * interval + since * (a.latitude - b.latitude), interval),
          Rat(b.longitude * interval + since * (a.longitude - b.longitude), interval),
          Rat(b.elevation * interval + since * (a.elevation - b.elevation), interval)>>

\* the rational q lies between the integers x and y, inclusive
Between(q, x, y) ==
    \/ (x * q[2] <= q[1] /\ q[1] <= y * q[2])
    \/ (y * q[2] <= q[1] /\ q[1] <= x * q[2])

BeforeFirst(k) == Len(points) > 0 /\ \A p \in 1..Len(points) : RowInstant(k) < points[p].time
AfterLast(k) == Len(points) > 0 /\ \A p \in 1..Len(points) : points[p].time < RowInstant(k)
OnAPoint(k) == \E p \in 1..Len(points) : points[p].time = RowInstant(k)

Ended == pc \in {"done", "error"}

\* ----------------------------------------------------------------- claims

\* C1: once the merge has ended, the located file holds exactly one data row
\* per data row of the kestrel file, in the input order.
C1_RowCount ==
    Ended => /\ RowsWritten = NRows
             /\ \A k \in 1..NRows :
                    located[RowLine(k)][TimeColumn] = kestrel_file[RowLine(k)][TimeColumn]

\* C2: every written row whose instant lies strictly between two adjacent track
\* points with different timestamps carries before + t * (after - before) in
\* latitude, longitude and elevation, t taken on the full differences in seconds.
C2_LinearInterpolation ==
    \A k \in 1..RowsWritten : \A b \in 1..(Len(points) - 1) :
        (points[b].time < RowInstant(k) /\ RowInstant(k) < points[b + 1].time)
            => OutLocation(k) = Blend(points[b], points[b + 1], RowInstant(k))

\* C3: every row read whose instant equals the timestamp of a track point is
\* written with the latitude, longitude and elevation of a point of that time.
C3_ExactMatch ==
    \A k \in 1..RowsRead :
        OnAPoint(k) =>
            /\ k <= RowsWritten
            /\ \E p \in 1..Len(points) :
                   /\ points[p].time = RowInstant(k)
                   /\ OutLocation(k) = Verbatim(points[p])

\* C4: every row read whose instant is later than every point of a non-empty
\* track raises no error and is written with latitude, longitude and elevation
\* unset.
C4_AfterLast ==
    \A k \in 1..RowsRead :
        AfterLast(k) => (k <= RowsWritten /\ OutLocation(k) = Unset)

\* C5: every row read whose instant is earlier than every point of a non-empty
\* track raises no error and is written with latitude, longitude and elevation
\* unset, and the row loop goes on.
C5_BeforeFirst ==
    \A k \in 1..RowsRead :
        BeforeFirst(k) =>
            /\ k <= RowsWritten
            /\ OutLocation(k) = Unset
            /\ branch[k] = "no_before"
            /\ (k = RowsRead => pc \in {"rows", "done"})

\* C5 witness: a row before the first point was written unset and the row
\* after it was written with a location.
C5_Witness ==
    \E k \in 1..(RowsWritten - 1) :
        BeforeFirst(k) /\ OutLocation(k) = Unset /\ OutLocation(k + 1) # Unset

\* C6: the merge never raises, and a row whose chosen before and after points
\* are zero whole seconds apart is written unset.
C6_ZeroDuration ==
    /\ error = "none"
    /\ \A k \in 1..RowsWritten : branch[k] = "zero" => OutLocation(k) = Unset

\* C7: every written row has, in every column of the input header, the cell of
\* the input row, and after them exactly the three location cells.
C7_PassThrough ==
    \A k \in 1..RowsWritten :
        LET in == kestrel_file[RowLine(k)]
            out == located[RowLine(k)]
        IN  /\ Len(out) = Len(in) + 3
            /\ \A j \in 1..Len(in) : out[j] = in[j]

\* C7 witness: an annotated and an unannotated row have both been written.
C7_Witness ==
    /\ \E k \in 1..RowsWritten : OutLocation(k) = Unset
    /\ \E k \in 1..RowsWritten : OutLocation(k) # Unset

\* C8: the located file is, line by line: the 9 preface lines of the input, the
\* input header without its trailing empty names followed by latitude,
\* longitude, elevation, the input units row, then one line per data row; once
\* the row loop is reached, the first 11 lines are there.
C8_OutputStructure ==
    /\ pc \in {"rows", "done", "error"} => Len(located) >= PrefaceRows + 2
    /\ Len(located) <= Len(kestrel_file)
    /\ \A n \in 1..Len(located) :
        IF n <= PrefaceRows THEN located[n] = kestrel_file[n]
        ELSE IF n = PrefaceRows + 1
        THEN LET h == kestrel_file[n]
                 o == located[n]
                 m == Len(o) - 3
             IN  /\ 1 <= m /\ m <= Len(h)
                 /\ \A j \in 1..m : o[j] = h[j]
                 /\ h[m] # ""
                 /\ \A j \in (m + 1)..Len(h) : h[j] = ""
                 /\ <<o[m + 1], o[m + 2], o[m + 3]>> = <<"latitude", "longitude", "elevation">>
        ELSE IF n = PrefaceRows + 2 THEN located[n] = kestrel_file[n]
        ELSE /\ Len(located[n]) = Len(located[PrefaceRows + 1])
             /\ located[n][TimeColumn] = kestrel_file[n][TimeColumn]

\* C8 witness: a merge of a file whose header had trailing empty names ended
\* with data rows written.
C8_Witness ==
    /\ pc = "done"
    /\ RowsWritten > 0
    /\ Len(kestrel_file[PrefaceRows + 1]) > Len(located[PrefaceRows + 1]) - 3

\* C9: a row set by interpolation has 0 <= elapsed <= seconds, and each of its
\* location cells lies between the before value and the after value.
C9_FractionBound ==
    (RowsWritten > 0 /\ RowsWritten = RowsRead /\ branch[RowsWritten] = "interpolated")
        => /\ 0 <= elapsed[1] /\ elapsed[1] <= seconds[1]
           /\ LET o == OutLocation(RowsWritten)
                  b == before_point[1]
                  a == after_point[1]
              IN  /\ Between(o[1], b.latitude, a.latitude)
                  /\ Between(o[2], b.longitude, a.longitude)
                  /\ Between(o[3], b.elevation, a.elevation)

\* C10: the outcome of every row read is the outcome the same row has as the
\* first row of a merge over the same track (no scan state bound yet).
C10_HistoryIndependence ==
    \A k \in 1..RowsRead :
        LET first == LocateRow(points, RowInstant(k), <<>>, <<>>, <<>>, <<>>, <<>>)
        IN  IF first.error # "none" THEN k > RowsWritten
            ELSE /\ k <= RowsWritten
                 /\ OutLocation(k) = (IF first.loc = <<>> THEN Unset ELSE first.loc)

====
